---- MODULE Spec2Model ----
(***************************************************************************)
(* repr_cast: an attribute macro that turns a fieldless enum into the enum *)
(* plus conversions to and from its integer representation.                *)
(*                                                                         *)
(* The repository holds two generators:                                    *)
(*   - src/lib.rs      repr_cast -> impl_repr_cast, the macro entry point; *)
(*   - src/parse.rs + src/expand.rs   parse_repr_cast -> expand_repr_cast. *)
(* Both are modelled.  What a generator emits is a record describing the   *)
(* emitted declarations; the host compiler (rustc) then gives the emitted  *)
(* enum its discriminants and runs the emitted functions.                  *)
(***************************************************************************)
EXTENDS Integers, Sequences, FiniteSets, TLC

VARIABLES args, input, pc, repr_enum, output, call

vars == <<args, input, pc, repr_enum, output, call>>

(***************************************************************************)
(* Bounds of the model.                                                    *)
(***************************************************************************)
MaxVariants == 3
MaxLit == 2

(***************************************************************************)
(* Representation types and their ranges.                                  *)
(***************************************************************************)
RepTypes == {"u8", "i8"}

MinOf(t) == IF t = "u8" THEN 0 ELSE -128
MaxOf(t) == IF t = "u8" THEN 255 ELSE 127

InRange(t, n) == MinOf(t) <= n /\ n <= MaxOf(t)

\* `n as t`: the host's integer cast, wrapping into the range of t.
AsCast(t, n) == ((n - MinOf(t)) % 256) + MinOf(t)

(***************************************************************************)
(* Expressions (syn::Expr), all of one record shape.                       *)
(***************************************************************************)
NoExpr == [kind |-> "None", op |-> "", val |-> 0, args |-> <<>>]
Lit(n) == [kind |-> "Lit", op |-> "Int", val |-> n, args |-> <<>>]
Unary(o, e) == [kind |-> "Unary", op |-> o, val |-> 0, args |-> <<e>>]
Path(c) == [kind |-> "Path", op |-> c, val |-> 0, args |-> <<>>]
Binary(l, r) == [kind |-> "Binary", op |-> "Add", val |-> 0, args |-> <<l, r>>]
\* `E::V as T`, the test the emitted if-chain compares against
Cast(v) == [kind |-> "Cast", op |-> v, val |-> 0, args |-> <<>>]
\* A literal that is no integer, a parenthesised expression
LitStr == [kind |-> "Lit", op |-> "Str", val |-> 0, args |-> <<>>]
Paren(e) == [kind |-> "Paren", op |-> "", val |-> 0, args |-> <<e>>]

\* const BASE: u8 = 10; const OFFSET: u8 = 5;
BASE == 10
OFFSET == 5
ConstValue(c) == IF c = "BASE" THEN BASE ELSE OFFSET

\* Results (syn::Result, core::result::Result) and options, one shape each.
Ok(v) == [ok |-> TRUE, val |-> v, err |-> "", at |-> ""]
Err(m) == [ok |-> FALSE, val |-> 0, err |-> m, at |-> ""]
\* Error::new_spanned(tokens, message): at names the declaration or the
\* variant the error points to.
ErrAt(m, span) == [ok |-> FALSE, val |-> 0, err |-> m, at |-> span]
Some(v) == [some |-> TRUE, val |-> v]
None == [some |-> FALSE, val |-> ""]

(***************************************************************************)
(* parse.rs                                                                *)
(***************************************************************************)
\* The range of i128, the type of the implicit counter and of an evaluated
\* literal, scaled down: the model's integers are narrower than 128 bits.
I128_MAX == 1000
I128_MIN == -I128_MAX - 1

\* a + b in i128 as a build without overflow checks computes it, wrapping
\* around; a build with overflow checks panics when overflows_i128(a, b).
overflows_i128(a, b) == a + b > I128_MAX \/ a + b < I128_MIN

add_i128(a, b) ==
    ((a + b - I128_MIN) % (I128_MAX - I128_MIN + 1)) + I128_MIN

\* try_evaluate_expr taking the sign off: `-e` evaluates to the value of e.
RECURSIVE try_evaluate_expr_unsigned(_)
try_evaluate_expr_unsigned(expr) ==
    CASE expr.kind = "Lit" ->
            IF expr.op # "Int" THEN Err("expected integer literal")
            ELSE IF expr.val > I128_MAX THEN Err("number too large to fit in target type")
            ELSE Ok(expr.val)
      [] expr.kind = "Unary" ->
            IF expr.op = "Neg"
            THEN try_evaluate_expr_unsigned(expr.args[1])
            ELSE Err("only negation is supported")
      [] OTHER -> Err("cannot evaluate complex expression")

\* lit_int.base10_parse::<i128>() fails for a literal above i128::MAX.
RECURSIVE try_evaluate_expr(_)
try_evaluate_expr(expr) ==
    CASE expr.kind = "Lit" ->
            IF expr.op # "Int" THEN Err("expected integer literal")
            ELSE IF expr.val > I128_MAX THEN Err("number too large to fit in target type")
            ELSE Ok(expr.val)
      [] expr.kind = "Unary" ->
            IF expr.op = "Neg"
            THEN LET value == try_evaluate_expr(expr.args[1])
                 IN  IF value.ok THEN Ok(-value.val) ELSE value
            ELSE Err("only negation is supported")
      [] OTHER -> Err("cannot evaluate complex expression")

Explicit(expr) == [tag |-> "Explicit", expr |-> expr, value |-> 0]
Implicit(n) == [tag |-> "Implicit", expr |-> NoExpr, value |-> n]

\* EnumVariant without the expression as written.
EnumVariant_without_source(variant, calculated) ==
    [name |-> variant.ident,
     attributes |-> variant.attrs,
     discriminant |-> NoExpr,
     calculated_discriminant |-> calculated]

EnumVariant(variant, calculated) ==
    [name |-> variant.ident,
     attributes |-> variant.attrs,
     discriminant |-> variant.discriminant,
     calculated_discriminant |-> calculated]

\* calculate_from with the counter reset after every explicit discriminant,
\* evaluable or not.
RECURSIVE calculate_from_always_reset(_, _, _, _)
calculate_from_always_reset(variants, i, next_implicit_value, result) ==
    IF i > Len(variants) THEN result
    ELSE LET variant == variants[i]
         IN  IF variant.discriminant.kind # "None"
             THEN calculate_from_always_reset(variants, i + 1, 0,
                      Append(result,
                             EnumVariant(variant, Explicit(variant.discriminant))))
             ELSE calculate_from_always_reset(variants, i + 1, next_implicit_value + 1,
                      Append(result,
                             EnumVariant(variant, Implicit(next_implicit_value))))

\* The loop of calculate_discriminants from variant i on, with the counter
\* next_implicit_value and the vector built so far.
RECURSIVE calculate_from(_, _, _, _)
calculate_from(variants, i, next_implicit_value, result) ==
    IF i > Len(variants) THEN result
    ELSE LET variant == variants[i]
         IN  IF variant.discriminant.kind # "None"
             THEN LET value == try_evaluate_expr(variant.discriminant)
                      next == IF value.ok THEN add_i128(value.val, 1) ELSE 0
                  IN  calculate_from(variants, i + 1, next,
                          Append(result,
                                 EnumVariant(variant, Explicit(variant.discriminant))))
             ELSE calculate_from(variants, i + 1, add_i128(next_implicit_value, 1),
                      Append(result,
                             EnumVariant(variant, Implicit(next_implicit_value))))

\* Some addition of that loop, from variant i on, overflows i128.
RECURSIVE calculate_overflows(_, _, _)
calculate_overflows(variants, i, next_implicit_value) ==
    IF i > Len(variants) THEN FALSE
    ELSE LET variant == variants[i]
         IN  IF variant.discriminant.kind # "None"
             THEN LET value == try_evaluate_expr(variant.discriminant)
                  IN  IF value.ok
                      THEN \/ overflows_i128(value.val, 1)
                           \/ calculate_overflows(variants, i + 1, add_i128(value.val, 1))
                      ELSE calculate_overflows(variants, i + 1, 0)
             ELSE \/ overflows_i128(next_implicit_value, 1)
                  \/ calculate_overflows(variants, i + 1, add_i128(next_implicit_value, 1))

\* calculate_discriminants with the counter starting at 1.
calculate_discriminants_from_one(variants) == calculate_from(variants, 1, 1, <<>>)

calculate_discriminants(variants) == calculate_from(variants, 1, 0, <<>>)

\* Tokens are strings; a token is an identifier unless it is punctuation or
\* a literal.
IsIdent(token) == token \notin {",", "8"}

\* syn::parse2::<Ident>(tokens): exactly one identifier and nothing after it.
parse2_ident(tokens) ==
    IF Len(tokens) = 0 THEN Err("unexpected end of input, expected identifier")
    ELSE IF ~IsIdent(tokens[1]) THEN Err("expected identifier")
    ELSE IF Len(tokens) > 1 THEN Err("unexpected token")
    ELSE Ok(tokens[1])

\* is_matching_repr_attr answering for the path alone.
is_matching_repr_attr_any_type(attr, repr_type) ==
    /\ attr.path = "repr"
    /\ attr.meta = "List"

\* An attribute is #[path(tokens)] (meta "List") or #[path] (meta "Path").
is_matching_repr_attr(attr, repr_type) ==
    /\ attr.path = "repr"
    /\ attr.meta = "List"
    /\ parse2_ident(attr.tokens).ok
    /\ parse2_ident(attr.tokens).val = repr_type

\* parse_repr_cast looking for fields at the first variant only.
parse_repr_cast_first_variant(a, inp) ==
    IF inp.kind # "enum"
    THEN Err("repr_cast can only be applied to enums")
    ELSE IF Len(inp.variants) > 0 /\ inp.variants[1].fields # "Unit"
    THEN Err("repr_cast can only be applied to fieldless enums (enums with unit variants)")
    ELSE Ok([name |-> inp.ident,
             repr_type |-> a,
             visibility |-> inp.vis,
             attributes |-> SelectSeq(inp.attrs,
                               LAMBDA attr : ~is_matching_repr_attr(attr, a)),
             variants |-> calculate_discriminants(inp.variants)])

\* parse_repr_cast without the test of the declaration's kind.
parse_repr_cast_any_kind(a, inp) ==
    IF \E i \in 1..Len(inp.variants) : inp.variants[i].fields # "Unit"
    THEN Err("repr_cast can only be applied to fieldless enums (enums with unit variants)")
    ELSE Ok([name |-> inp.ident,
             repr_type |-> a,
             visibility |-> inp.vis,
             attributes |-> SelectSeq(inp.attrs,
                               LAMBDA attr : ~is_matching_repr_attr(attr, a)),
             variants |-> calculate_discriminants(inp.variants)])

\* The first variant, in declaration order, that carries fields.
first_with_fields(variants) ==
    LET carrying == {i \in 1..Len(variants) : variants[i].fields # "Unit"}
    IN  variants[CHOOSE i \in carrying : \A j \in carrying : i <= j]

\* parse_repr_cast going through the variants from the last to the first.
parse_repr_cast_backwards(a, inp) ==
    IF inp.kind # "enum"
    THEN ErrAt("repr_cast can only be applied to enums", inp.ident)
    ELSE IF \E i \in 1..Len(inp.variants) : inp.variants[i].fields # "Unit"
    THEN LET carrying == {i \in 1..Len(inp.variants) : inp.variants[i].fields # "Unit"}
         IN  ErrAt("repr_cast can only be applied to fieldless enums (enums with unit variants)",
                   inp.variants[CHOOSE i \in carrying : \A j \in carrying : j <= i].ident)
    ELSE Ok([name |-> inp.ident,
             repr_type |-> a,
             visibility |-> inp.vis,
             attributes |-> SelectSeq(inp.attrs,
                               LAMBDA attr : ~is_matching_repr_attr(attr, a)),
             variants |-> calculate_discriminants(inp.variants)])

parse_repr_cast(a, inp) ==
    IF inp.kind # "enum"
    THEN ErrAt("repr_cast can only be applied to enums", inp.ident)
    ELSE IF \E i \in 1..Len(inp.variants) : inp.variants[i].fields # "Unit"
    THEN ErrAt("repr_cast can only be applied to fieldless enums (enums with unit variants)",
               first_with_fields(inp.variants).ident)
    ELSE Ok([name |-> inp.ident,
             repr_type |-> a,
             visibility |-> inp.vis,
             attributes |-> SelectSeq(inp.attrs,
                               LAMBDA attr : ~is_matching_repr_attr(attr, a)),
             variants |-> calculate_discriminants(inp.variants)])

\* extract_from passing over a #[repr(...)] whose tokens are not one
\* identifier.
RECURSIVE extract_from_falling_through(_, _)
extract_from_falling_through(attrs, i) ==
    IF i > Len(attrs) THEN Ok(None)
    ELSE IF /\ attrs[i].path = "repr"
            /\ attrs[i].meta = "List"
            /\ parse2_ident(attrs[i].tokens).ok
         THEN Ok(Some(parse2_ident(attrs[i].tokens).val))
         ELSE extract_from_falling_through(attrs, i + 1)

\* What a run of parse_repr_cast ends in: its result, or, when an addition of
\* calculate_discriminants overflows, either a panic (overflow checks on) or
\* its result with the counter wrapped (overflow checks off).
Outcome(at, result) == [pc |-> at, repr_enum |-> result]

parse_repr_cast_outcomes(a, inp) ==
    {Outcome("parsed", parse_repr_cast(a, inp))}
    \cup
    IF /\ parse_repr_cast(a, inp).ok
       /\ calculate_overflows(inp.variants, 1, 0)
    THEN {Outcome("panicked", Err("attempt to add with overflow"))}
    ELSE {}

\* The first #[repr(...)] list attribute decides; its tokens must parse as
\* one identifier.
RECURSIVE extract_from(_, _)
extract_from(attrs, i) ==
    IF i > Len(attrs) THEN Ok(None)
    ELSE IF attrs[i].path = "repr" /\ attrs[i].meta = "List"
         THEN LET repr_type == parse2_ident(attrs[i].tokens)
              IN  IF repr_type.ok THEN Ok(Some(repr_type.val))
                  ELSE Err(repr_type.err)
         ELSE extract_from(attrs, i + 1)

extract_repr_from_attrs(inp) == extract_from(inp.attrs, 1)

\* parse.rs holds the same function once more.
extract_repr_from_attrs_parse(inp) == extract_from(inp.attrs, 1)

(***************************************************************************)
(* expand.rs: what is emitted, as data.                                    *)
(***************************************************************************)
ReprAttr(t) == [path |-> "repr", meta |-> "List", tokens |-> <<t>>]

\* format_ident!("{}ConversionError", name)
ErrorTypeName(name) == name \o "ConversionError"

EmitVariant(name, attributes, discriminant) ==
    [name |-> name, attrs |-> attributes, discriminant |-> discriminant]

Arm(test, variant) == [test |-> test, variant |-> variant]

Impl(trait, arg, self, error) ==
    [trait |-> trait, arg |-> arg, self |-> self, error |-> error]

\* generate_enum_definition writing the inferred value of a variant that has
\* no discriminant.
generate_enum_definition_with_inferred(re) ==
    [attrs |-> re.attributes \o <<ReprAttr(re.repr_type)>>,
     vis |-> re.visibility,
     name |-> re.name,
     variants |-> [i \in 1..Len(re.variants) |->
                     EmitVariant(re.variants[i].name,
                                 re.variants[i].attributes,
                                 IF re.variants[i].calculated_discriminant.tag = "Implicit"
                                 THEN Lit(re.variants[i].calculated_discriminant.value)
                                 ELSE re.variants[i].discriminant)]]

generate_enum_definition(re) ==
    [attrs |-> re.attributes \o <<ReprAttr(re.repr_type)>>,
     vis |-> re.visibility,
     name |-> re.name,
     variants |-> [i \in 1..Len(re.variants) |->
                     EmitVariant(re.variants[i].name,
                                 re.variants[i].attributes,
                                 re.variants[i].discriminant)]]

\* generate_impl_methods with as_repr returning the value the Modeler
\* inferred for a variant without a discriminant.
generate_impl_methods_inferred(re) ==
    [from_repr |-> [vis |-> "pub", form |-> "if",
                    arms |-> [i \in 1..Len(re.variants) |->
                                Arm(Cast(re.variants[i].name), re.variants[i].name)]],
     as_repr |-> [vis |-> "pub", form |-> "match",
                  arms |-> [i \in 1..Len(re.variants) |->
                              Arm(IF re.variants[i].calculated_discriminant.tag = "Implicit"
                                  THEN Lit(re.variants[i].calculated_discriminant.value)
                                  ELSE Cast(re.variants[i].name),
                                  re.variants[i].name)]]]

\* from_repr is a chain of `if value == E::V as T { return Some(E::V) }`,
\* as_repr a match with one arm `E::V => E::V as T` per variant.
generate_impl_methods(re) ==
    [from_repr |-> [vis |-> "pub", form |-> "if",
                    arms |-> [i \in 1..Len(re.variants) |->
                                Arm(Cast(re.variants[i].name), re.variants[i].name)]],
     as_repr |-> [vis |-> "pub", form |-> "match",
                  arms |-> [i \in 1..Len(re.variants) |->
                              Arm(Cast(re.variants[i].name), re.variants[i].name)]]]

generate_from_impl(re) ==
    {Impl("From", re.name, re.repr_type, "")}

generate_try_from_impl(re) ==
    {Impl("TryFrom", re.repr_type, re.name, ErrorTypeName(re.name))}

\* generate_error_type with the message naming the error type.
generate_error_type_own_name(re) ==
    [name |-> ErrorTypeName(re.name),
     vis |-> re.visibility,
     fields |-> <<[vis |-> "pub", ty |-> re.repr_type]>>,
     derives |-> {"Debug", "Clone", "Copy", "PartialEq", "Eq", "Hash"},
     display |-> <<"unknown ", ErrorTypeName(re.name), " variant: ">>,
     impls |-> {"Display", "Error"}]

\* generate_error_type declaring the error type pub.
generate_error_type_always_pub(re) ==
    [name |-> ErrorTypeName(re.name),
     vis |-> "pub",
     fields |-> <<[vis |-> "pub", ty |-> re.repr_type]>>,
     derives |-> {"Debug", "Clone", "Copy", "PartialEq", "Eq", "Hash"},
     display |-> <<"unknown ", re.name, " variant: ">>,
     impls |-> {"Display", "Error"}]

generate_error_type(re) ==
    [name |-> ErrorTypeName(re.name),
     vis |-> re.visibility,
     fields |-> <<[vis |-> "pub", ty |-> re.repr_type]>>,
     derives |-> {"Debug", "Clone", "Copy", "PartialEq", "Eq", "Hash"},
     display |-> <<"unknown ", re.name, " variant: ">>,
     impls |-> {"Display", "Error"}]

\* expand_repr_cast leaving the fallible conversion out.
expand_repr_cast_without_try_from(re) ==
    [by |-> "expand_repr_cast",
     repr_type |-> re.repr_type,
     enum_def |-> generate_enum_definition(re),
     methods |-> generate_impl_methods(re),
     impls |-> generate_from_impl(re),
     error_type |-> generate_error_type(re)]

expand_repr_cast(re) ==
    [by |-> "expand_repr_cast",
     repr_type |-> re.repr_type,
     enum_def |-> generate_enum_definition(re),
     methods |-> generate_impl_methods(re),
     impls |-> generate_from_impl(re) \cup generate_try_from_impl(re),
     error_type |-> generate_error_type(re)]

(***************************************************************************)
(* lib.rs: the macro entry point and its own generator.                    *)
(***************************************************************************)
has_repr_attr(inp, repr_type) ==
    \E i \in 1..Len(inp.attrs) :
        /\ inp.attrs[i].path = "repr"
        /\ inp.attrs[i].meta = "List"
        /\ parse2_ident(inp.attrs[i].tokens).ok
        /\ parse2_ident(inp.attrs[i].tokens).val = repr_type

\* The discriminant loop of impl_repr_cast from variant i on: the match
\* pattern of each variant, an explicit expression as written or the literal
\* of the counter next_discriminant.
RECURSIVE lib_discriminants_from(_, _, _, _)
lib_discriminants_from(variants, i, next_discriminant, discriminants) ==
    IF i > Len(variants) THEN discriminants
    ELSE IF variants[i].discriminant.kind # "None"
         THEN lib_discriminants_from(variants, i + 1, 0,
                  Append(discriminants, variants[i].discriminant))
         ELSE lib_discriminants_from(variants, i + 1, next_discriminant + 1,
                  Append(discriminants, Lit(next_discriminant)))

lib_discriminants(variants) == lib_discriminants_from(variants, 1, 0, <<>>)

impl_repr_cast(inp, repr_type) ==
    IF inp.kind # "enum"
    THEN ErrAt("repr_cast can only be applied to enums", inp.ident)
    ELSE IF \E i \in 1..Len(inp.variants) : inp.variants[i].fields # "Unit"
    THEN ErrAt("repr_cast can only be applied to fieldless enums (enums with unit variants)",
               first_with_fields(inp.variants).ident)
    ELSE LET variants == inp.variants
             discriminants == lib_discriminants(variants)
             repr_attr == IF has_repr_attr(inp, repr_type) THEN <<>>
                          ELSE <<ReprAttr(repr_type)>>
         IN  Ok([by |-> "repr_cast",
                 repr_type |-> repr_type,
                 enum_def |->
                    [attrs |-> inp.attrs \o repr_attr,
                     vis |-> inp.vis,
                     name |-> inp.ident,
                     variants |-> [i \in 1..Len(variants) |->
                                     EmitVariant(variants[i].ident,
                                                 variants[i].attrs,
                                                 variants[i].discriminant)]],
                 methods |->
                    [from_repr |-> [vis |-> "pub", form |-> "match",
                                    arms |-> [i \in 1..Len(variants) |->
                                                Arm(discriminants[i], variants[i].ident)]],
                     as_repr |-> [vis |-> "pub", form |-> "match",
                                  arms |-> [i \in 1..Len(variants) |->
                                              Arm(Cast(variants[i].ident), variants[i].ident)]]],
                 impls |-> {Impl("From", inp.ident, repr_type, ""),
                            Impl("TryFrom", repr_type, inp.ident, ErrorTypeName(inp.ident))},
                 error_type |->
                    [name |-> ErrorTypeName(inp.ident),
                     vis |-> inp.vis,
                     fields |-> <<[vis |-> "pub", ty |-> repr_type]>>,
                     derives |-> {"Debug", "Clone", "Copy", "PartialEq", "Eq", "Hash"},
                     display |-> <<"unknown ", inp.ident, " variant: ">>,
                     impls |-> {"Display", "Error"}]])

\* repr_cast falling back on u8 when neither argument nor #[repr] names a type.
repr_cast_with_default(a, inp) ==
    IF Len(a) = 0
    THEN LET extracted == extract_repr_from_attrs(inp)
         IN  IF ~extracted.ok THEN Err(extracted.err)
             ELSE IF ~extracted.val.some
             THEN impl_repr_cast(inp, "u8")
             ELSE impl_repr_cast(inp, extracted.val.val)
    ELSE LET repr_type == parse2_ident(a)
         IN  IF repr_type.ok THEN impl_repr_cast(inp, repr_type.val)
             ELSE Err(repr_type.err)

\* repr_cast consulting the #[repr] attributes before its argument.
repr_cast_attribute_first(a, inp) ==
    LET extracted == extract_repr_from_attrs(inp)
    IN  IF extracted.ok /\ extracted.val.some
        THEN impl_repr_cast(inp, extracted.val.val)
        ELSE IF Len(a) = 0
        THEN IF ~extracted.ok THEN Err(extracted.err)
             ELSE Err("repr_cast requires either an argument like #[repr_cast(i32)] or an existing #[repr(i32)] attribute")
        ELSE LET repr_type == parse2_ident(a)
             IN  IF repr_type.ok THEN impl_repr_cast(inp, repr_type.val)
                 ELSE Err(repr_type.err)

\* Macro arguments are a token sequence; parse_macro_input!(args as Ident)
\* accepts exactly one identifier.
repr_cast(a, inp) ==
    IF Len(a) = 0
    THEN LET extracted == extract_repr_from_attrs(inp)
         IN  IF ~extracted.ok THEN Err(extracted.err)
             ELSE IF ~extracted.val.some
             THEN ErrAt("repr_cast requires either an argument like #[repr_cast(i32)] or an existing #[repr(i32)] attribute",
                       inp.ident)
             ELSE impl_repr_cast(inp, extracted.val.val)
    ELSE LET repr_type == parse2_ident(a)
         IN  IF repr_type.ok THEN impl_repr_cast(inp, repr_type.val)
             ELSE Err(repr_type.err)

(***************************************************************************)
(* The host compiler: constant evaluation, discriminants of the emitted    *)
(* enum, and what it refuses to compile.                                   *)
(***************************************************************************)
RECURSIVE HostEval(_)
HostEval(expr) ==
    CASE expr.kind = "Lit" -> expr.val
      [] expr.kind = "Unary" /\ expr.op = "Neg" -> -HostEval(expr.args[1])
      [] expr.kind = "Path" -> ConstValue(expr.op)
      [] expr.kind = "Binary" -> HostEval(expr.args[1]) + HostEval(expr.args[2])
      [] OTHER -> 0

\* An explicit discriminant has the value of its expression; a variant
\* without one has the previous discriminant plus one, the first has 0.
RECURSIVE HostDiscriminants(_)
HostDiscriminants(variants) ==
    IF Len(variants) = 0 THEN <<>>
    ELSE LET n == Len(variants)
             before == HostDiscriminants(SubSeq(variants, 1, n - 1))
             d == IF variants[n].discriminant.kind # "None"
                  THEN HostEval(variants[n].discriminant)
                  ELSE IF n = 1 THEN 0 ELSE before[n - 1] + 1
         IN  Append(before, d)

\* What may stand as a match pattern: a literal, a negated literal, a path
\* to a constant.
IsPattern(expr) ==
    \/ expr.kind = "Lit"
    \/ expr.kind = "Path"
    \/ expr.kind = "Unary" /\ expr.op = "Neg" /\ expr.args[1].kind = "Lit"

\* The representation types named by the #[repr(...)] attributes of the
\* emitted enum.
EnumReprs(enum_def) ==
    UNION {{enum_def.attrs[i].tokens[k] :
                k \in {n \in 1..Len(enum_def.attrs[i].tokens) :
                          IsIdent(enum_def.attrs[i].tokens[n])}} :
             i \in {j \in 1..Len(enum_def.attrs) :
                       /\ enum_def.attrs[j].path = "repr"
                       /\ enum_def.attrs[j].meta = "List"}}

\* The emitted declarations compile: the enum has variants and one
\* representation type, its discriminants fit the type and are distinct, and
\* every arm of a match-form from_repr is a pattern of the type.
Compiles(g) ==
    LET variants == g.enum_def.variants
        d == HostDiscriminants(variants)
        arms == g.methods.from_repr.arms
    IN  /\ Len(variants) > 0
        /\ EnumReprs(g.enum_def) = {g.repr_type}
        /\ g.repr_type \in RepTypes
        /\ \A i \in 1..Len(d) : InRange(g.repr_type, d[i])
        /\ \A i, j \in 1..Len(d) : d[i] = d[j] => i = j
        /\ g.methods.from_repr.form = "match" =>
              \A i \in 1..Len(arms) :
                  /\ IsPattern(arms[i].test)
                  /\ InRange(g.repr_type, HostEval(arms[i].test))

(***************************************************************************)
(* The emitted functions, as the host runs them.                           *)
(***************************************************************************)
VariantNamesOf(g) ==
    {g.enum_def.variants[i].name : i \in 1..Len(g.enum_def.variants)}

VariantIndex(g, v) ==
    CHOOSE i \in 1..Len(g.enum_def.variants) : g.enum_def.variants[i].name = v

\* `E::V as T`
NativeCast(g, v) ==
    AsCast(g.repr_type, HostDiscriminants(g.enum_def.variants)[VariantIndex(g, v)])

TestValue(g, test) ==
    IF test.kind = "Cast" THEN NativeCast(g, test.op) ELSE HostEval(test)

\* The arms are tried in order; the first whose test equals value returns.
from_repr(g, value) ==
    LET arms == g.methods.from_repr.arms
        hits == {i \in 1..Len(arms) : value = TestValue(g, arms[i].test)}
    IN  IF hits = {} THEN None
        ELSE Some(arms[CHOOSE i \in hits : \A j \in hits : i <= j].variant)

as_repr(g, self) ==
    LET arms == g.methods.as_repr.arms
        i == CHOOSE k \in 1..Len(arms) : arms[k].variant = self
    IN  TestValue(g, arms[i].test)

HasImpl(g, trait, arg, self) ==
    \E m \in g.impls : m.trait = trait /\ m.arg = arg /\ m.self = self

\* core::result::Result<E, EConversionError>
ROk(v) == [ok |-> TRUE, variant |-> v, error_type |-> "", payload |-> 0]
RErr(ty, x) == [ok |-> FALSE, variant |-> "", error_type |-> ty, payload |-> x]

\* fn from(value: E) -> T { value.as_repr() }
From(g, value) == as_repr(g, value)

\* fn try_from(value: T) -> Result<E, EConversionError>
\*     { Self::from_repr(value).ok_or(EConversionError(value)) }
TryFrom(g, value) ==
    LET r == from_repr(g, value)
        m == CHOOSE k \in g.impls : k.trait = "TryFrom"
    IN  IF r.some THEN ROk(r.val) ELSE RErr(m.error, value)

\* write!(f, "unknown {} variant: {}", stringify!(E), self.0)
Display(g, e) ==
    g.error_type.display[1] \o g.error_type.display[2]
        \o g.error_type.display[3] \o ToString(e.payload)

(***************************************************************************)
(* Inputs.                                                                 *)
(***************************************************************************)
VariantNames == <<"First", "Second", "Third", "Fourth", "Fifth", "Sixth">>
EnumNames == {"Status", "Mixed"}

\* Discriminants as written: none, 0..MaxLit, -MaxLit..-1, a named
\* constant, a compound expression.
DiscExprs ==
    {NoExpr}
        \cup {Lit(n) : n \in 0..MaxLit}
        \cup {Unary("Neg", Lit(n)) : n \in 1..MaxLit}
        \cup {Path("BASE"), Binary(Path("BASE"), Path("OFFSET"))}

Variant(i, d) ==
    [ident |-> VariantNames[i], attrs |-> <<>>, fields |-> "Unit", discriminant |-> d]

VariantLists ==
    UNION {{[i \in 1..n |-> Variant(i, ds[i])] : ds \in [1..n -> DiscExprs]} :
              n \in 0..MaxVariants}

Inputs ==
    {[kind |-> "enum", attrs |-> <<>>, vis |-> "pub", ident |-> e, variants |-> vs] :
        e \in EnumNames, vs \in VariantLists}

\* Declarations of every kind, with attributes, visibilities and variants that
\* carry fields; macro arguments of every shape.
MaxAttrs == 2
MaxDeclVariants == 2

Attr(path, meta, tokens) == [path |-> path, meta |-> meta, tokens |-> tokens]

AttrChoices ==
    {Attr("derive", "List", <<"Debug">>),
     Attr("repr", "List", <<"u8">>),
     Attr("repr", "List", <<"i8">>),
     Attr("repr", "List", <<"u8", ",", "i8">>)}

AttrLists == UNION {[1..n -> AttrChoices] : n \in 0..MaxAttrs}

FieldKinds == {"Unit", "Unnamed", "Named"}

\* What a variant is written with: fields, or for a unit variant an
\* annotation of its own, alone or with a discriminant.
VariantShapes ==
    {[fields |-> f, attrs |-> <<>>, discriminant |-> NoExpr] : f \in FieldKinds}
    \cup
    {[fields |-> "Unit", attrs |-> <<Attr("doc", "List", <<"Note">>)>>, discriminant |-> d] :
        d \in {NoExpr, Binary(Path("BASE"), Path("OFFSET"))}}

DeclVariant(i, shape) ==
    [ident |-> VariantNames[i], attrs |-> shape.attrs, fields |-> shape.fields,
     discriminant |-> shape.discriminant]

DeclVariantLists ==
    UNION {{[i \in 1..n |-> DeclVariant(i, fs[i])] : fs \in [1..n -> VariantShapes]} :
              n \in 0..MaxDeclVariants}

Visibilities == {"", "pub"}

Declarations ==
    {[kind |-> "enum", attrs |-> a, vis |-> v, ident |-> "Status", variants |-> vs] :
        a \in AttrLists, v \in Visibilities, vs \in DeclVariantLists}
    \cup
    {[kind |-> k, attrs |-> a, vis |-> v, ident |-> "Status", variants |-> <<>>] :
        k \in {"struct", "union"}, a \in AttrLists, v \in Visibilities}

DeclArgs == {<<>>, <<"u8">>, <<"8">>, <<"u8", ",", "i8">>}

\* Discriminant expressions of every form, negations and other unary
\* operators nested up to MaxDepth deep, literals up to and beyond i128::MAX.
MaxDepth == 2

EvalAtoms ==
    {Lit(n) : n \in 0..MaxLit}
        \cup {Lit(I128_MAX - 1), Lit(I128_MAX), Lit(I128_MAX + 1)}
        \cup {LitStr, Path("BASE"), Binary(Lit(1), Lit(2)), Paren(Lit(1))}

RECURSIVE EvalExprsOf(_)
EvalExprsOf(depth) ==
    IF depth = 0 THEN EvalAtoms
    ELSE LET inner == EvalExprsOf(depth - 1)
         IN  inner \cup {Unary(o, e) : o \in {"Neg", "Not"}, e \in inner}

EvalExprs == EvalExprsOf(MaxDepth)

\* An enum whose first variant carries the expression, if any, and whose
\* other variants carry none.
EvalInputs ==
    {[kind |-> "enum", attrs |-> <<>>, vis |-> "pub", ident |-> "Status",
      variants |-> [i \in 1..n |-> Variant(i, IF i = 1 THEN e ELSE NoExpr)]] :
        e \in EvalExprs \cup {NoExpr}, n \in 1..MaxVariants}

\* Integers handed to the emitted conversions.
Values == (-(MaxLit + 1))..(BASE + OFFSET + 2)

NoCall ==
    [op |-> "", v |-> "", x |-> 0, resolved |-> FALSE,
     opt |-> None, res |-> ROk(""), int |-> 0, msg |-> ""]

(***************************************************************************)
(* The state machine: one macro expansion, then a use of what it emitted.   *)
(***************************************************************************)
Init ==
    /\ args \in {<<t>> : t \in RepTypes}
    /\ input \in Inputs
    /\ pc = "start"
    /\ repr_enum = Err("")
    /\ output = Err("")
    /\ call = NoCall

\* lib.rs: #[repr_cast(args)] on input
ReprCast ==
    /\ pc = "start"
    /\ output' = repr_cast(args, input)
    /\ pc' = "expanded"
    /\ UNCHANGED <<args, input, repr_enum, call>>

\* parse.rs: parse_repr_cast(args, input)
ParseReprCast ==
    /\ pc = "start"
    /\ parse2_ident(args).ok
    /\ \E outcome \in parse_repr_cast_outcomes(parse2_ident(args).val, input) :
          /\ repr_enum' = outcome.repr_enum
          /\ pc' = outcome.pc
    /\ UNCHANGED <<args, input, output, call>>

\* parse.rs: try_evaluate_expr(expr), for the discriminant of a variant
TryEvaluateExpr ==
    /\ pc = "start"
    /\ \E i \in 1..Len(input.variants) :
          /\ input.variants[i].discriminant.kind # "None"
          /\ LET value == try_evaluate_expr(input.variants[i].discriminant)
             IN  call' = [NoCall EXCEPT !.op = "try_evaluate_expr",
                                        !.v = input.variants[i].ident,
                                        !.resolved = value.ok,
                                        !.int = value.val,
                                        !.msg = value.err]
    /\ pc' = "evaluated"
    /\ UNCHANGED <<args, input, repr_enum, output>>

\* parse.rs: extract_repr_from_attrs(&input)
ExtractReprFromAttrs ==
    /\ pc = "start"
    /\ LET extracted == extract_repr_from_attrs_parse(input)
       IN  call' = [NoCall EXCEPT !.op = "extract_repr_from_attrs",
                                  !.resolved = extracted.ok,
                                  !.opt = IF extracted.ok THEN extracted.val ELSE None,
                                  !.msg = extracted.err]
    /\ pc' = "extracted"
    /\ UNCHANGED <<args, input, repr_enum, output>>

\* expand.rs: expand_repr_cast(&repr_enum)
ExpandReprCast ==
    /\ pc = "parsed"
    /\ repr_enum.ok
    /\ output' = Ok(expand_repr_cast(repr_enum.val))
    /\ pc' = "expanded"
    /\ UNCHANGED <<args, input, repr_enum, call>>

Emitted == pc = "expanded" /\ output.ok

Runnable == Emitted /\ Compiles(output.val)

ValuesOf(g) == {x \in Values : InRange(g.repr_type, x)}

\* E::from_repr(x)
CallFromRepr ==
    /\ Runnable
    /\ \E x \in ValuesOf(output.val) :
          call' = [NoCall EXCEPT !.op = "from_repr", !.x = x, !.resolved = TRUE,
                                 !.opt = from_repr(output.val, x)]
    /\ pc' = "called"
    /\ UNCHANGED <<args, input, repr_enum, output>>

\* v.as_repr()
CallAsRepr ==
    /\ Runnable
    /\ \E v \in VariantNamesOf(output.val) :
          call' = [NoCall EXCEPT !.op = "as_repr", !.v = v, !.resolved = TRUE,
                                 !.int = as_repr(output.val, v)]
    /\ pc' = "called"
    /\ UNCHANGED <<args, input, repr_enum, output>>

\* T::from(v)
CallFrom ==
    /\ Runnable
    /\ \E v \in VariantNamesOf(output.val) :
          LET g == output.val
              found == HasImpl(g, "From", g.enum_def.name, g.repr_type)
          IN  call' = [NoCall EXCEPT !.op = "from", !.v = v, !.resolved = found,
                                     !.int = IF found THEN From(g, v) ELSE 0]
    /\ pc' = "called"
    /\ UNCHANGED <<args, input, repr_enum, output>>

\* T::from(&v)
CallFromRef ==
    /\ Runnable
    /\ \E v \in VariantNamesOf(output.val) :
          LET g == output.val
              found == HasImpl(g, "From", "&" \o g.enum_def.name, g.repr_type)
          IN  call' = [NoCall EXCEPT !.op = "from_ref", !.v = v, !.resolved = found,
                                     !.int = IF found THEN From(g, v) ELSE 0]
    /\ pc' = "called"
    /\ UNCHANGED <<args, input, repr_enum, output>>

\* E::try_from(x)
CallTryFrom ==
    /\ Runnable
    /\ \E x \in ValuesOf(output.val) :
          LET g == output.val
              found == HasImpl(g, "TryFrom", g.repr_type, g.enum_def.name)
          IN  call' = [NoCall EXCEPT !.op = "try_from", !.x = x, !.resolved = found,
                                     !.res = IF found THEN TryFrom(g, x) ELSE ROk("")]
    /\ pc' = "called"
    /\ UNCHANGED <<args, input, repr_enum, output>>

\* E::try_from(&x)
CallTryFromRef ==
    /\ Runnable
    /\ \E x \in ValuesOf(output.val) :
          LET g == output.val
              found == HasImpl(g, "TryFrom", "&" \o g.repr_type, g.enum_def.name)
          IN  call' = [NoCall EXCEPT !.op = "try_from_ref", !.x = x, !.resolved = found,
                                     !.res = IF found THEN TryFrom(g, x) ELSE ROk("")]
    /\ pc' = "called"
    /\ UNCHANGED <<args, input, repr_enum, output>>

\* E::try_from(T::from(v))
CallRoundTrip ==
    /\ Runnable
    /\ \E v \in VariantNamesOf(output.val) :
          LET g == output.val
              found == /\ HasImpl(g, "From", g.enum_def.name, g.repr_type)
                       /\ HasImpl(g, "TryFrom", g.repr_type, g.enum_def.name)
          IN  call' = [NoCall EXCEPT !.op = "round_trip", !.v = v, !.resolved = found,
                                     !.int = IF found THEN From(g, v) ELSE 0,
                                     !.opt = from_repr(g, as_repr(g, v)),
                                     !.res = IF found THEN TryFrom(g, From(g, v))
                                             ELSE ROk("")]
    /\ pc' = "called"
    /\ UNCHANGED <<args, input, repr_enum, output>>

\* format!("{}", err) on the error of the last try_from
CallDisplay ==
    /\ pc = "called"
    /\ call.op = "try_from"
    /\ call.resolved
    /\ ~call.res.ok
    /\ call' = [call EXCEPT !.op = "display", !.msg = Display(output.val, call.res)]
    /\ UNCHANGED <<args, input, pc, repr_enum, output>>

Next ==
    \/ ReprCast
    \/ ParseReprCast
    \/ ExtractReprFromAttrs
    \/ ExpandReprCast
    \/ CallFromRepr
    \/ CallAsRepr
    \/ CallFrom
    \/ CallFromRef
    \/ CallTryFrom
    \/ CallTryFromRef
    \/ CallRoundTrip
    \/ CallDisplay

Spec == Init /\ [][Next]_vars

\* The same machine started on the declarations and arguments of every shape.
InitDecl ==
    /\ args \in DeclArgs
    /\ input \in Declarations
    /\ pc = "start"
    /\ repr_enum = Err("")
    /\ output = Err("")
    /\ call = NoCall

SpecDecl == InitDecl /\ [][Next]_vars

\* The Modeler alone, on discriminant expressions of every form.
InitEval ==
    /\ args \in {<<t>> : t \in RepTypes}
    /\ input \in EvalInputs
    /\ pc = "start"
    /\ repr_enum = Err("")
    /\ output = Err("")
    /\ call = NoCall

NextEval ==
    \/ TryEvaluateExpr
    \/ ParseReprCast

SpecEval == InitEval /\ [][NextEval]_vars

(***************************************************************************)
(* Vocabulary of the properties.                                           *)
(***************************************************************************)
\* A bare integer literal or a negated integer literal, and its value.
IsLiteral(expr) ==
    \/ expr.kind = "Lit" /\ expr.op = "Int"
    \/ expr.kind = "Unary" /\ expr.op = "Neg"
          /\ expr.args[1].kind = "Lit" /\ expr.args[1].op = "Int"

LiteralValue(expr) == IF expr.kind = "Lit" THEN expr.val ELSE -expr.args[1].val

\* A named constant or a compound expression.
IsOpaque(expr) == expr.kind \in {"Path", "Binary"}

IsImplicit(i) == input.variants[i].discriminant.kind = "None"

\* The discriminants the host gives the enum as the user wrote it.
TrueDiscriminants == HostDiscriminants(input.variants)

\* Variants i+1..j are all written without a discriminant.
ImplicitRun(i, j) == i < j /\ \A k \in (i + 1)..j : IsImplicit(k)

Called(op) == pc = "called" /\ call.op = op

VariantIndexOf(v) ==
    CHOOSE i \in 1..Len(input.variants) : input.variants[i].ident = v

\* x is the discriminant of no variant.
NoDiscriminant(x) ==
    \A i \in 1..Len(TrueDiscriminants) : TrueDiscriminants[i] # x

\* Some variant of the annotated enum carries positional or named fields.
HasFields ==
    /\ input.kind = "enum"
    /\ \E i \in 1..Len(input.variants) : input.variants[i].fields # "Unit"

AllUnit ==
    /\ input.kind = "enum"
    /\ \A i \in 1..Len(input.variants) : input.variants[i].fields = "Unit"

FieldlessMessage ==
    "repr_cast can only be applied to fieldless enums (enums with unit variants)"

EnumsOnlyMessage == "repr_cast can only be applied to enums"

MissingMessage ==
    "repr_cast requires either an argument like #[repr_cast(i32)] or an existing #[repr(i32)] attribute"

\* Positions of the representation annotations of the declaration.
ReprPositions == {i \in 1..Len(input.attrs) : input.attrs[i].path = "repr"}

FirstRepr == input.attrs[CHOOSE i \in ReprPositions : \A j \in ReprPositions : i <= j]

SingleIdentifier(tokens) == Len(tokens) = 1 /\ IsIdent(tokens[1])

\* The annotation is a representation annotation whose single argument is t.
NamesType(attr, t) == attr.path = "repr" /\ attr.tokens = <<t>>

\* Positions of the input annotations the Modeler is to retain for type t,
\* and the place of position i among them.
Retained(t) == {i \in 1..Len(input.attrs) : ~NamesType(input.attrs[i], t)}

PlaceIn(kept, i) == Cardinality({j \in kept : j <= i})

NonRepr(attrs) == SelectSeq(attrs, LAMBDA attr : attr.path # "repr")

\* The failures of the pipeline, by what the macro was given.
MissingRepresentationType == Len(args) = 0 /\ ReprPositions = {}

MalformedArgument == Len(args) > 0 /\ ~SingleIdentifier(args)

MalformedAnnotation ==
    Len(args) = 0 /\ ReprPositions # {} /\ ~SingleIdentifier(FirstRepr.tokens)

NotAnEnum == input.kind # "enum"

\* The enum, both methods, both conversions and the error type.
AllDeclarations(g) ==
    /\ g.enum_def.name = input.ident
    /\ Len(g.enum_def.variants) = Len(input.variants)
    /\ Len(g.methods.from_repr.arms) = Len(input.variants)
    /\ Len(g.methods.as_repr.arms) = Len(input.variants)
    /\ HasImpl(g, "From", input.ident, g.repr_type)
    /\ HasImpl(g, "TryFrom", g.repr_type, input.ident)
    /\ g.error_type.name = ErrorTypeName(input.ident)
    /\ g.error_type.impls = {"Display", "Error"}

(***************************************************************************)
(* Properties.                                                             *)
(***************************************************************************)
\* C1: round trip.  For every variant v of an enum whose emitted code
\* compiles, from_repr(as_repr(v)) is Some(v) and try_from(T::from(v)) is
\* Ok(v), whatever mix of explicit and implicit discriminants the enum has.
C1_RoundTrip ==
    Called("round_trip") =>
        /\ call.resolved
        /\ call.opt = Some(call.v)
        /\ call.res = ROk(call.v)

\* C2: rejection.  An integer that is the discriminant of no variant makes
\* from_repr return None and try_from return Err(EConversionError(x)) with
\* payload x; and try_from(x) is Ok(v) exactly when from_repr(x) is Some(v).
C2_Rejection ==
    /\ (Called("from_repr") /\ NoDiscriminant(call.x)) => call.opt = None
    /\ Called("try_from") =>
          /\ call.resolved
          /\ NoDiscriminant(call.x)
                => call.res = RErr(input.ident \o "ConversionError", call.x)
          /\ (call.res.ok <=> from_repr(output.val, call.x).some)
          /\ call.res.ok => call.res.variant = from_repr(output.val, call.x).val

C4_OpaqueThenImplicit ==
    Called("round_trip") =>
        LET i == VariantIndex(output.val, call.v)
        IN  (i > 1 /\ IsImplicit(i) /\ IsOpaque(input.variants[i - 1].discriminant))
                => LET c == HostEval(input.variants[i - 1].discriminant)
                   IN  /\ call.int = c + 1
                       /\ as_repr(output.val, call.v) = c + 1
                       /\ from_repr(output.val, c + 1) = Some(call.v)
                       /\ call.res = ROk(call.v)

\* C5: after an explicit discriminant that is a literal or a negated literal
\* of value d, the following run of variants without a discriminant is
\* resolved to Implicit(d + 1), Implicit(d + 2), ...
C5_InferenceAfterLiteral ==
    (pc = "parsed" /\ repr_enum.ok) =>
        \A i, j \in 1..Len(input.variants) :
            (IsLiteral(input.variants[i].discriminant) /\ ImplicitRun(i, j))
                => repr_enum.val.variants[j].calculated_discriminant
                     = Implicit(LiteralValue(input.variants[i].discriminant) + (j - i))

C5_Witness ==
    /\ pc = "parsed"
    /\ repr_enum.ok
    /\ Len(input.variants) = 3
    /\ input.variants[1].discriminant = Unary("Neg", Lit(2))
    /\ repr_enum.val.variants[2].calculated_discriminant = Implicit(-1)
    /\ repr_enum.val.variants[3].calculated_discriminant = Implicit(0)

\* The value each generator infers for a variant without a discriminant:
\* parse.rs records it as Implicit(n), lib.rs writes it as the literal
\* pattern of the variant's from_repr arm.
InferredByParse(i) == repr_enum.val.variants[i].calculated_discriminant.value
InferredByLib(i) == output.val.methods.from_repr.arms[i].test.val

ResetRule(inferred(_)) ==
    \A i \in 2..Len(input.variants) :
        (IsImplicit(i) /\ ~IsImplicit(i - 1)) =>
            IF IsLiteral(input.variants[i - 1].discriminant)
            THEN inferred(i) = LiteralValue(input.variants[i - 1].discriminant) + 1
            ELSE inferred(i) = 0

\* C6: the implicit counter is reset to 0 after an explicit discriminant that
\* cannot be evaluated, and only then: after an evaluable literal of value d
\* the next implicit variant gets d + 1.
C6_ResetOnlyOnOpaque ==
    /\ (pc = "parsed" /\ repr_enum.ok) => ResetRule(InferredByParse)
    /\ (Emitted /\ output.val.by = "repr_cast") => ResetRule(InferredByLib)

\* C7: when no variant carries a discriminant, the k-th variant (from 0) is
\* resolved to Implicit(k).
C7_ImplicitNumbering ==
    (pc = "parsed" /\ repr_enum.ok /\ \A i \in 1..Len(input.variants) : IsImplicit(i)) =>
        \A k \in 1..Len(input.variants) :
            repr_enum.val.variants[k].calculated_discriminant = Implicit(k - 1)

C7_Witness ==
    /\ pc = "parsed"
    /\ repr_enum.ok
    /\ Len(input.variants) = MaxVariants
    /\ \A i \in 1..Len(input.variants) : IsImplicit(i)
    /\ repr_enum.val.variants[MaxVariants].calculated_discriminant
          = Implicit(MaxVariants - 1)

\* C8: the conversion to the integer exists by reference as well; T::from(&v)
\* is the integer T::from(v) and v.as_repr() give.
C8_FromByReference ==
    Called("from_ref") =>
        /\ call.resolved
        /\ call.int = as_repr(output.val, call.v)
        /\ call.int = From(output.val, call.v)

\* C9: the fallible conversion exists for a reference to the integer as
\* well; try_from(&x) is the result of try_from(x), error payload included.
C9_TryFromByReference ==
    Called("try_from_ref") =>
        /\ call.resolved
        /\ call.res = TryFrom(output.val, call.x)

\* C10: the error type of enum E is named EConversionError, has exactly one
\* public field of the representation type, and displays a rejected x as
\* `unknown E variant: x`.
C10_ErrorType ==
    /\ Emitted =>
          /\ output.val.error_type.name = input.ident \o "ConversionError"
          /\ output.val.error_type.fields = <<[vis |-> "pub", ty |-> args[1]]>>
          /\ \A m \in output.val.impls :
                m.trait = "TryFrom" => m.error = input.ident \o "ConversionError"
    /\ Called("try_from") /\ call.resolved /\ ~call.res.ok => call.res.payload = call.x
    /\ Called("display") =>
          call.msg = "unknown " \o input.ident \o " variant: " \o ToString(call.x)

C10_Witness ==
    /\ Called("display")
    /\ input.ident = "Status"
    /\ call.x = -3
    /\ call.msg = "unknown Status variant: -3"


\* C11: HasFields.  When any variant of the annotated enum carries positional
\* or named fields, whatever the other variants are, parse_repr_cast returns
\* the error about fieldless enums, there is no EnumSpec and nothing is
\* generated; when every variant is a unit variant that error is never
\* raised.
C11_HasFields ==
    /\ (pc = "parsed" /\ HasFields) =>
          /\ ~repr_enum.ok
          /\ repr_enum.err = FieldlessMessage
    /\ HasFields => ~output.ok
    /\ AllUnit =>
          /\ repr_enum.err # FieldlessMessage
          /\ output.err # FieldlessMessage
    /\ (pc = "parsed" /\ AllUnit) => repr_enum.ok

C11_Witness ==
    /\ pc = "parsed"
    /\ Len(input.variants) = 2
    /\ input.variants[1].fields = "Unit"
    /\ input.variants[2].fields = "Unnamed"
    /\ repr_enum.err = FieldlessMessage

\* C12: NotAnEnum.  When the annotated declaration is a struct or a union,
\* parse_repr_cast returns the error saying the macro can only be applied to
\* enums, there is no EnumSpec and nothing is generated; impl_repr_cast
\* answers a chosen type the same way.
C12_NotAnEnum ==
    input.kind # "enum" =>
        /\ pc = "parsed" =>
              /\ ~repr_enum.ok
              /\ repr_enum.err = EnumsOnlyMessage
        /\ ~output.ok
        /\ (pc = "expanded" /\ parse2_ident(args).ok) => output.err = EnumsOnlyMessage

C12_Witness ==
    /\ pc = "parsed"
    /\ input.kind = "union"
    /\ repr_enum.err = EnumsOnlyMessage

\* C13: MissingRepresentationType.  With empty argument tokens and no
\* representation annotation on the declaration, extraction yields no type
\* and repr_cast fails with the diagnostic advising to supply an argument or
\* a repr attribute, whatever the declaration is: neither the Modeler nor the
\* Emitter has run.
C13_MissingRepresentationType ==
    (Len(args) = 0 /\ ReprPositions = {}) =>
        /\ pc = "extracted" => (call.resolved /\ call.opt = None)
        /\ pc = "expanded" => (~output.ok /\ output.err = MissingMessage)
        /\ ~repr_enum.ok

C13_Witness ==
    /\ pc = "expanded"
    /\ Len(args) = 0
    /\ Len(input.attrs) = 1
    /\ ReprPositions = {}
    /\ input.kind = "struct"
    /\ output.err = MissingMessage

\* C14: with empty argument tokens and one or more representation
\* annotations, the representation type is the single identifier of the first
\* of them in declared order, whatever the later ones are; when the first
\* one's arguments are not a single identifier the extraction fails and no
\* later annotation is used.
C14_FirstReprDecides ==
    (Len(args) = 0 /\ ReprPositions # {}) =>
        IF SingleIdentifier(FirstRepr.tokens)
        THEN /\ pc = "extracted" =>
                  (call.resolved /\ call.opt = Some(FirstRepr.tokens[1]))
             /\ (pc = "expanded" /\ output.ok) =>
                  output.val.repr_type = FirstRepr.tokens[1]
             /\ (pc = "expanded" /\ AllUnit) => output.ok
        ELSE /\ pc = "extracted" => (~call.resolved /\ call.opt = None)
             /\ pc = "expanded" =>
                  /\ ~output.ok
                  /\ output.err \notin {MissingMessage, EnumsOnlyMessage, FieldlessMessage}

C14_Witness ==
    /\ pc = "expanded"
    /\ Len(args) = 0
    /\ Len(input.attrs) = 2
    /\ input.attrs[1].path = "repr"
    /\ input.attrs[1].tokens = <<"i8">>
    /\ input.attrs[2].path = "repr"
    /\ input.attrs[2].tokens = <<"u8">>
    /\ output.ok
    /\ output.val.repr_type = "i8"

\* C15: non-empty argument tokens are parsed as a single type identifier,
\* which is the representation type whatever representation annotation the
\* declaration carries; argument tokens of any other shape give a parse error
\* and nothing is generated.
C15_ArgumentDecides ==
    (Len(args) > 0 /\ pc = "expanded") =>
        IF SingleIdentifier(args)
        THEN /\ output.ok => output.val.repr_type = args[1]
             /\ AllUnit => output.ok
             /\ ~output.ok => output.err \in {EnumsOnlyMessage, FieldlessMessage}
        ELSE /\ ~output.ok
             /\ output.err \in {"expected identifier", "unexpected token"}

C15_Witness ==
    /\ pc = "expanded"
    /\ args = <<"u8">>
    /\ Len(input.attrs) > 0
    /\ input.attrs[1].path = "repr"
    /\ input.attrs[1].tokens = <<"i8">>
    /\ output.ok
    /\ output.val.repr_type = "u8"

C17_EnumFidelity ==
    Emitted =>
        /\ output.val.enum_def.name = input.ident
        /\ output.val.enum_def.vis = input.vis
        /\ NonRepr(output.val.enum_def.attrs) = NonRepr(input.attrs)
        /\ Cardinality({i \in 1..Len(output.val.enum_def.attrs) :
                          NamesType(output.val.enum_def.attrs[i], output.val.repr_type)})
              = 1

\* C18: the conversion error type is declared with the visibility of the
\* enum, private for a private enum and pub for a pub one; from_repr and
\* as_repr are declared pub whatever the enum's visibility.
C18_Visibility ==
    Emitted =>
        /\ output.val.error_type.vis = input.vis
        /\ output.val.methods.from_repr.vis = "pub"
        /\ output.val.methods.as_repr.vis = "pub"

C18_Witness ==
    /\ Emitted
    /\ output.val.by = "expand_repr_cast"
    /\ input.vis = ""
    /\ output.val.error_type.vis = ""
    /\ output.val.methods.from_repr.vis = "pub"

\* C19: no partial emission.  On each of MissingRepresentationType,
\* MalformedArgument, NotAnEnum and HasFields the output of the pipeline is
\* the diagnostic and no declaration; a failed parse_repr_cast is followed by
\* no emission; and when the pipeline does not fail the enum, both methods,
\* both conversions and the error type are all emitted.
C19_NoPartialEmission ==
    /\ (MissingRepresentationType \/ MalformedArgument \/ NotAnEnum \/ HasFields) =>
          ~output.ok
    /\ (pc = "expanded" /\ ~output.ok) => (output.val = 0 /\ output.err # "")
    /\ (pc = "parsed" /\ ~repr_enum.ok) =>
          (repr_enum.val = 0 /\ repr_enum.err # "" /\ ~ENABLED ExpandReprCast)
    /\ Emitted => AllDeclarations(output.val)
    /\ (/\ pc = "expanded"
        /\ ~MissingRepresentationType
        /\ ~MalformedArgument
        /\ ~MalformedAnnotation
        /\ ~NotAnEnum
        /\ ~HasFields) => Emitted

C19_Witness ==
    /\ Emitted
    /\ output.val.by = "expand_repr_cast"
    /\ Len(input.variants) = 2
    /\ AllDeclarations(output.val)

\* C21: empty enums.  For an enum without variants the Modeler succeeds with
\* an empty variant sequence, and the generated from_repr returns None and
\* try_from returns Err(EConversionError(x)) for every integer x.
C21_EmptyEnum ==
    (input.kind = "enum" /\ Len(input.variants) = 0) =>
        /\ pc = "parsed" => (repr_enum.ok /\ repr_enum.val.variants = <<>>)
        /\ (Emitted /\ EnumReprs(output.val.enum_def) = {output.val.repr_type}) =>
              /\ Compiles(output.val)
              /\ \A x \in ValuesOf(output.val) :
                    /\ from_repr(output.val, x) = None
                    /\ TryFrom(output.val, x) = RErr(ErrorTypeName(input.ident), x)

\* The explicit discriminant nearest before variant i, if there is one, is an
\* integer literal or a negated integer literal.
AfterLiteral(i) ==
    \A j \in 1..(i - 1) :
        (~IsImplicit(j) /\ ImplicitRun(j, i)) => IsLiteral(input.variants[j].discriminant)

C23_FromReprFirstMatch ==
    Called("from_repr") =>
        LET g == output.val
            arms == g.methods.from_repr.arms
            native == {i \in 1..Len(input.variants) :
                         AsCast(g.repr_type, TrueDiscriminants[i]) = call.x}
            tested == {i \in 1..Len(arms) : TestValue(g, arms[i].test) = call.x}
        IN  /\ call.resolved
            /\ Cardinality(native) <= 1
            /\ Cardinality(tested) <= 1
            /\ \A i \in 1..Len(arms) : arms[i].variant = input.variants[i].ident
            /\ call.opt = IF native = {} THEN None
                          ELSE Some(input.variants[
                                      CHOOSE i \in native : \A j \in native : i <= j].ident)

\* C24: the re-declared enum lists the variants in the original order with
\* their names and their own annotations; a variant written with a
\* discriminant carries that expression as written, a variant written
\* without one carries none, whatever value was inferred for it.
C24_VariantsAsWritten ==
    Emitted =>
        LET emitted == output.val.enum_def.variants
        IN  /\ Len(emitted) = Len(input.variants)
            /\ \A i \in 1..Len(emitted) :
                  /\ emitted[i].name = input.variants[i].ident
                  /\ emitted[i].attrs = input.variants[i].attrs
                  /\ emitted[i].discriminant = input.variants[i].discriminant
                  /\ IsImplicit(i) => emitted[i].discriminant = NoExpr

C24_Witness ==
    /\ Emitted
    /\ output.val.by = "expand_repr_cast"
    /\ Len(input.variants) = 2
    /\ input.variants[1].discriminant = Binary(Path("BASE"), Path("OFFSET"))
    /\ Len(input.variants[1].attrs) = 1
    /\ IsImplicit(2)
    /\ repr_enum.val.variants[2].calculated_discriminant = Implicit(0)
    /\ output.val.enum_def.variants[1].discriminant = Binary(Path("BASE"), Path("OFFSET"))
    /\ output.val.enum_def.variants[2].discriminant = NoExpr

\* The type the Extractor resolves for the invocation: Ok(Some(t)), Ok(None)
\* when there is nothing to take it from, or the parse error.
ResolvedType ==
    IF Len(args) = 0 THEN extract_repr_from_attrs(input)
    ELSE IF parse2_ident(args).ok THEN Ok(Some(parse2_ident(args).val))
    ELSE Err(parse2_ident(args).err)

\* The macro entry point has run on the input.
MacroRan == pc = "expanded" /\ ~repr_enum.ok

\* C25: repr_cast is the pipeline Extractor, Modeler, Emitter.  What it emits
\* is what expand_repr_cast emits for the EnumSpec parse_repr_cast returns,
\* in particular from_repr and as_repr behave alike, and it fails exactly when
\* the extraction or parse_repr_cast fails.
C25_MacroIsPipeline ==
    MacroRan =>
        IF ~ResolvedType.ok \/ ~ResolvedType.val.some
        THEN ~output.ok
        ELSE LET modelled == parse_repr_cast(ResolvedType.val.val, input)
             IN  /\ output.ok <=> modelled.ok
                 /\ output.ok =>
                       LET piped == expand_repr_cast(modelled.val)
                       IN  /\ output.val.enum_def = piped.enum_def
                           /\ output.val.impls = piped.impls
                           /\ output.val.error_type = piped.error_type
                           /\ Compiles(output.val) <=> Compiles(piped)
                           /\ \A x \in ValuesOf(output.val) :
                                 from_repr(output.val, x) = from_repr(piped, x)
                           /\ \A v \in VariantNamesOf(output.val) :
                                 as_repr(output.val, v) = as_repr(piped, v)

\* The expression is an integer literal under any number of negations, and
\* the value that gives when the literal fits i128.
RECURSIVE IsSignedLiteral(_)
IsSignedLiteral(expr) ==
    \/ expr.kind = "Lit" /\ expr.op = "Int"
    \/ expr.kind = "Unary" /\ expr.op = "Neg" /\ IsSignedLiteral(expr.args[1])

RECURSIVE SignedLiteralValue(_)
SignedLiteralValue(expr) ==
    IF expr.kind = "Lit" THEN expr.val ELSE -SignedLiteralValue(expr.args[1])

EvaluatedExpr == input.variants[VariantIndexOf(call.v)].discriminant

\* C26: best-effort evaluation succeeds only for a bare integer literal,
\* with its value, and for a negation of an evaluable expression, with the
\* negated value; for a binary or compound expression, a path, a literal
\* that is no integer and any other unary operator it fails.
C26_BestEffortEvaluation ==
    (pc = "evaluated" /\ call.op = "try_evaluate_expr") =>
        /\ call.resolved => IsSignedLiteral(EvaluatedExpr)
        /\ call.resolved => call.int = SignedLiteralValue(EvaluatedExpr)
        /\ EvaluatedExpr.kind \in {"Binary", "Path", "Paren"} => ~call.resolved
        /\ (EvaluatedExpr.kind = "Lit" /\ EvaluatedExpr.op # "Int") => ~call.resolved
        /\ (EvaluatedExpr.kind = "Unary" /\ EvaluatedExpr.op # "Neg") => ~call.resolved
        /\ (EvaluatedExpr.kind = "Unary" /\ EvaluatedExpr.op = "Neg") =>
              (call.resolved <=> try_evaluate_expr(EvaluatedExpr.args[1]).ok)
        /\ (EvaluatedExpr.kind = "Lit" /\ EvaluatedExpr.op = "Int"
               /\ EvaluatedExpr.val <= I128_MAX) => call.resolved

C26_Witness ==
    /\ pc = "evaluated"
    /\ call.op = "try_evaluate_expr"
    /\ EvaluatedExpr = Unary("Neg", Unary("Neg", Lit(2)))
    /\ call.resolved
    /\ call.int = 2

\* C27: the implicit counter stays within i128 on every input.  The Modeler
\* never panics, and never wraps: an implicit variant is numbered one above
\* the implicit variant before it, or one above the evaluated literal before
\* it, as integers.
C27_CounterInRange ==
    /\ pc # "panicked"
    /\ (pc = "parsed" /\ repr_enum.ok) =>
          \A i \in 2..Len(input.variants) :
              IsImplicit(i) =>
                  LET n == repr_enum.val.variants[i].calculated_discriminant.value
                      before == input.variants[i - 1].discriminant
                  IN  /\ IsImplicit(i - 1) =>
                            n = repr_enum.val.variants[i - 1].calculated_discriminant.value + 1
                      /\ (IsSignedLiteral(before) /\ try_evaluate_expr(before).ok) =>
                            n = SignedLiteralValue(before) + 1

\* C28: in every EnumSpec parse_repr_cast returns, the variants are the
\* input's in number, order and names; a variant's source discriminant is
\* present exactly when its resolved discriminant is Explicit, and both are
\* then the input's expression; a variant is Implicit exactly when the input
\* variant has no discriminant.
C28_EnumSpecVariants ==
    (pc = "parsed" /\ repr_enum.ok) =>
        LET variants == repr_enum.val.variants
        IN  /\ Len(variants) = Len(input.variants)
            /\ \A i \in 1..Len(variants) :
                  LET calculated == variants[i].calculated_discriminant
                  IN  /\ variants[i].name = input.variants[i].ident
                      /\ calculated.tag \in {"Explicit", "Implicit"}
                      /\ variants[i].discriminant.kind # "None" <=> calculated.tag = "Explicit"
                      /\ calculated.tag = "Explicit" =>
                            /\ calculated.expr = input.variants[i].discriminant
                            /\ variants[i].discriminant = input.variants[i].discriminant
                      /\ calculated.tag = "Implicit" <=> IsImplicit(i)

C28_Witness ==
    /\ pc = "parsed"
    /\ repr_enum.ok
    /\ Len(input.variants) = 3
    /\ input.variants[1].discriminant = Path("BASE")
    /\ IsImplicit(2)
    /\ input.variants[3].discriminant = Lit(1)
    /\ repr_enum.val.variants[1].discriminant = Path("BASE")
    /\ repr_enum.val.variants[1].calculated_discriminant = Explicit(Path("BASE"))
    /\ repr_enum.val.variants[2].calculated_discriminant.tag = "Implicit"
    /\ repr_enum.val.variants[3].calculated_discriminant = Explicit(Lit(1))

\* Variant i carries fields and no variant before it does.
FirstCarryingFields(i) ==
    /\ input.variants[i].fields # "Unit"
    /\ \A j \in 1..(i - 1) : input.variants[j].fields = "Unit"

\* The diagnostic of the declaration's validation: NotAnEnum, else HasFields
\* at the first field-carrying variant.
ValidationDiagnostic(result) ==
    IF NotAnEnum
    THEN /\ ~result.ok
         /\ result.err = EnumsOnlyMessage
         /\ result.at = input.ident
    ELSE IF HasFields
    THEN /\ ~result.ok
         /\ result.err = FieldlessMessage
         /\ \E i \in 1..Len(input.variants) :
               FirstCarryingFields(i) /\ result.at = input.variants[i].ident
    ELSE result.ok

\* C29: a failed invocation returns one diagnostic, chosen by a fixed order
\* of checks.  The representation type is resolved first, so a missing or
\* malformed type is reported whatever the declaration is; then the kind is
\* checked; then the variants in declaration order, the first that carries
\* fields being reported.  An input that fails validation gets no EnumSpec:
\* neither inference nor attribute filtering has run on it.
C29_OrderOfChecks ==
    /\ MacroRan =>
          /\ ~output.ok => (output.err # "" /\ output.val = 0)
          /\ IF MissingRepresentationType
             THEN ~output.ok /\ output.err = MissingMessage
             ELSE IF MalformedArgument \/ MalformedAnnotation
             THEN ~output.ok /\ output.err \in {"expected identifier", "unexpected token"}
             ELSE ValidationDiagnostic(output)
    /\ pc = "parsed" =>
          /\ ~repr_enum.ok => (repr_enum.err # "" /\ repr_enum.val = 0)
          /\ ValidationDiagnostic(repr_enum)

C29_Witness ==
    /\ pc = "parsed"
    /\ Len(input.variants) = 2
    /\ input.variants[1].fields = "Named"
    /\ input.variants[2].fields = "Unnamed"
    /\ repr_enum.err = FieldlessMessage
    /\ repr_enum.at = input.variants[1].ident
====
